---------------------------- MODULE Spec2Model ----------------------------
(***************************************************************************)
(* Model of the three share-allocation notebooks of the repository:        *)
(*   equal_weight : src/unnamed/part_000 (equal-weight S&P 500 fund)       *)
(*   momentum     : 002_quantitative_momentum_strategy.ipynb, table df     *)
(*   hqm          : 002_quantitative_momentum_strategy.ipynb, table hqm_df *)
(*                                                                         *)
(* A run executes the code cells top to bottom; an uncaught exception ends *)
(* the run and leaves the tables as they were when it was raised.          *)
(*                                                                         *)
(* Numbers held in table cells (Python floats and ints) are exact          *)
(* rationals <<num, den>> with den > 0; a missing cell (None, pd.NA) is    *)
(* the empty tuple NA.  Row labels and positions are 0-based as in pandas; *)
(* TLA+ sequences are 1-based.                                             *)
(***************************************************************************)
EXTENDS Integers, Sequences, FiniteSets, TLC

(***************************************************************************)
(* Bounds of the model.                                                    *)
(***************************************************************************)
\* longest ticker list of a run
MaxSymbols == 4
\* symbols per batch request; stands for the literal 100 of the code
BatchSize == 3
\* rows kept by the selection; stands for the literal 50 of the code
TopN == 2
\* longest list and largest batch size handed to chunks_generator on its own
MaxLen == 4
MaxChunk == 5
\* most rows of a table handed to the score cell on its own
MaxScoreRows == 2

AllSymbols == <<"A", "B", "C", "D", "E", "F">>

VARIABLES
    pipeline,       \* which notebook runs
    pc,             \* the cell the run is at, "done" or "error"
    err,            \* the exception that ended the run, or "none"
    stocks,         \* stocks["Ticker"]
    symbol_groups,  \* list(chunks_generator(stocks["Ticker"], 100))
    symbol_strings, \* the comma-joined groups
    batch_no,       \* number of symbol strings the fetch loop has taken
    status_code,    \* data.status_code of the last response (0: none yet)
    data,           \* data.json() of the last response
    df,             \* the table (df or hqm_df): a sequence of rows
    portfolio_size, \* the budget (NA until the allocation cell sets it)
    position_size,  \* the position size (NA until the allocation cell)
    universe,       \* history: the table as it was when construction ended
    requests,       \* history: the symbol strings requested, in order
    responses,      \* history: the JSON bodies of the 200 responses, in order
    allocations,    \* history: number of times the allocation cell has run
    g_lst, g_n, g_i, g_out, g_state  \* a chunks_generator(lst, n) call on its own

vars == <<pipeline, pc, err, stocks, symbol_groups, symbol_strings, batch_no,
          status_code, data, df, portfolio_size, position_size, universe,
          requests, responses, allocations, g_lst, g_n, g_i, g_out, g_state>>

runVars == <<pipeline, pc, err, stocks, symbol_groups, symbol_strings, batch_no,
             status_code, data, df, portfolio_size, position_size, universe,
             requests, responses, allocations>>

genVars == <<g_lst, g_n, g_i, g_out, g_state>>

(***************************************************************************)
(* Cell values.                                                            *)
(***************************************************************************)
NA == <<>>

Num(k) == <<k, 1>>

IsNA(x) == x = NA

FracEq(a, b) == a[1] * b[2] = b[1] * a[2]

FracLT(a, b) == a[1] * b[2] < b[1] * a[2]

FracLE(a, b) == a[1] * b[2] <= b[1] * a[2]

Abs(k) == IF k < 0 THEN 0 - k ELSE k

RECURSIVE GCD(_, _)
GCD(a, b) == IF b = 0 THEN a ELSE GCD(b, a % b)

\* the rational num / den (den > 0) in lowest terms
Frac(num, den) ==
    LET g == GCD(Abs(num), den) IN <<num \div g, den \div g>>

\* a / b for b # 0
FracDiv(a, b) ==
    IF b[1] > 0 THEN Frac(a[1] * b[2], a[2] * b[1])
    ELSE Frac((0 - a[1]) * b[2], a[2] * (0 - b[1]))

FracAdd(a, b) == Frac(a[1] * b[2] + b[1] * a[2], a[2] * b[2])

FracMul(a, b) == Frac(a[1] * b[1], a[2] * b[2])

Min(a, b) == IF a <= b THEN a ELSE b

(***************************************************************************)
(* Python built-ins used by the cells.                                     *)
(***************************************************************************)
\* a range that stops short of a last partial step
RangeLen_floor(start, stop, step) ==
    IF step > 0
    THEN IF stop > start THEN (stop - start) \div step ELSE 0
    ELSE IF start > stop THEN (start - stop) \div (0 - step) ELSE 0

\* number of elements of range(start, stop, step), step # 0
RangeLen(start, stop, step) ==
    IF step > 0
    THEN IF stop > start THEN ((stop - start - 1) \div step) + 1 ELSE 0
    ELSE IF start > stop THEN ((start - stop - 1) \div (0 - step)) + 1 ELSE 0

\* lst[lo:hi] for 0 <= lo <= hi
PySlice(lst, lo, hi) == SubSeq(lst, Min(lo, Len(lst)) + 1, Min(hi, Len(lst)))

\* math.floor of the rational x
MathFloor(x) == x[1] \div x[2]

(***************************************************************************)
(* chunks_generator(lst, n): the sequence of batches it yields for n # 0.  *)
(* range(0, len(lst), 0) raises ValueError; see GenRaise.                  *)
(***************************************************************************)
\* a slice one element short: lst[i:i + n - 1]
YieldValue_short(lst, i, n) == PySlice(lst, i, i + n - 1)

\* the value of "yield lst[i:i + n]"
YieldValue(lst, i, n) == PySlice(lst, i, i + n)

chunks_generator(lst, n) ==
    [k \in 1..RangeLen(0, Len(lst), n) |-> YieldValue(lst, (k - 1) * n, n)]

\* ",".join(group): the symbols with a "," between neighbours
RECURSIVE Join(_)
Join(group) ==
    IF Len(group) = 0 THEN <<>>
    ELSE IF Len(group) = 1 THEN <<group[1]>>
    ELSE <<group[1], ",">> \o Join(Tail(group))

\* symbol_string.split(","): the pieces between the commas
RECURSIVE Split(_)
Split(s) ==
    IF Len(s) = 0 THEN <<>>
    ELSE IF s[1] = "," THEN Split(Tail(s))
    ELSE <<s[1]>> \o Split(Tail(s))


(***************************************************************************)
(* What the data provider can answer.  An entry is what a batch response   *)
(* holds for one symbol; a response may lack the entry of any symbol.      *)
(* Returns are in whole units (1 is +100%).  The return profiles (one      *)
(* year, six months, three months, one month): three with every return,    *)
(* which tie in some columns and differ in others, one with no return at   *)
(* all (a delisted stock) and one that lacks the six-month return only.    *)
(* Every profile comes at price 10, the highest also at price 20.          *)
(* A quote can also hold the price 0 or the price -10: nothing in the code *)
(* keeps such a price out of the table.                                    *)
(***************************************************************************)
StatusCodes == {200, 500}

Prices == {Num(0 - 10), Num(0), Num(10), Num(20)}

MarketCaps == {Num(1000)}

ReturnProfiles ==
    { <<Num(1), Num(1), Num(1), Num(1)>>,
      <<Num(2), Num(1), Num(3), Num(2)>>,
      <<Num(3), Num(3), Num(2), Num(1)>>,
      <<NA, NA, NA, NA>>,
      <<Num(2), NA, Num(1), Num(1)>> }

\* an entry of .../batch?symbols=...&types=quote
QuoteEntries ==
    { [latestPrice |-> p, marketCap |-> m] : p \in Prices, m \in MarketCaps }

StatsEntry(p, r) ==
    [price |-> p,
     year1ChangePercent |-> r[1], month6ChangePercent |-> r[2],
     month3ChangePercent |-> r[3], month1ChangePercent |-> r[4]]

\* an entry of .../batch?symbols=...&types=price,stats
StatsEntries ==
    { StatsEntry(Num(10), r) : r \in ReturnProfiles }
    \cup { StatsEntry(Num(20), <<Num(3), Num(3), Num(2), Num(1)>>) }

Entries(pl) == IF pl = "equal_weight" THEN QuoteEntries ELSE StatsEntries

SeqToSet(s) == { s[k] : k \in 1..Len(s) }

\* the JSON bodies a batch request for the symbols syms can return
Responses(pl, syms) ==
    UNION { [present -> Entries(pl)] : present \in SUBSET SeqToSet(syms) }

(***************************************************************************)
(* The tables.  A table is a sequence of rows; the field index of a row is *)
(* its pandas row label.                                                   *)
(***************************************************************************)
\* pd.Series([...], index=cols) of the three fetch loops
NewRow(pl, symbol, q) ==
    IF pl = "equal_weight"
    THEN [index |-> 0, ticker |-> symbol, stock_price |-> q.latestPrice,
          market_cap |-> q.marketCap, num_of_shares_to_buy |-> NA]
    ELSE IF pl = "momentum"
    THEN [index |-> 0, ticker |-> symbol, stock_price |-> q.price,
          one_year_return |-> q.year1ChangePercent,
          num_of_shares_to_buy |-> NA]
    ELSE [index |-> 0, ticker |-> symbol, stock_price |-> q.price,
          num_of_shares_to_buy |-> NA,
          one_year_return |-> q.year1ChangePercent,
          one_year_return_percentile |-> NA,
          six_month_return |-> q.month6ChangePercent,
          six_month_return_percentile |-> NA,
          three_month_return |-> q.month3ChangePercent,
          three_month_return_percentile |-> NA,
          one_month_return |-> q.month1ChangePercent,
          one_month_return_percentile |-> NA,
          momentum_score |-> NA]

\* the row labels replaced by 0, 1, ... (ignore_index=True, reset_index(drop=True))
ResetIndex(t) == [k \in 1..Len(t) |-> [t[k] EXCEPT !.index = k - 1]]

\* the append followed by a forward fill: a missing cell of the new row takes
\* the value of the row above it
DfAppend_ffill(t, row) ==
    ResetIndex(Append(t,
        [f \in DOMAIN row |->
            IF f \notin {"index", "ticker"} /\ IsNA(row[f]) /\ Len(t) > 0
            THEN t[Len(t)][f] ELSE row[f]]))

\* df.append(row, ignore_index=True)
DfAppend(t, row) == ResetIndex(Append(t, row))

\* the inner loop "for symbol in symbol_string.split(",")": the table after it
\* and the exception that cut it short (data[symbol] raises KeyError when the
\* response has no entry for the symbol; the rows appended before stay)
RECURSIVE AppendLoop(_, _, _, _)
AppendLoop(pl, t, syms, d) ==
    IF Len(syms) = 0 THEN [df |-> t, err |-> "none"]
    ELSE IF syms[1] \notin DOMAIN d THEN [df |-> t, err |-> "KeyError"]
    ELSE AppendLoop(pl, DfAppend(t, NewRow(pl, syms[1], d[syms[1]])),
                    Tail(syms), d)

Tickers(t) == { t[k].ticker : k \in 1..Len(t) }

(***************************************************************************)
(* The run.                                                                *)
(***************************************************************************)
Pipelines == {"equal_weight", "momentum", "hqm"}

\* the strings the fetch loop iterates: all of them, or symbol_strings[:1]
LoopStrings(pl, strs) == IF pl = "momentum" THEN PySlice(strs, 0, 1) ELSE strs

\* the cell after the fetch loop
AfterFetch(pl) ==
    IF pl = "equal_weight" THEN "allocate"
    ELSE IF pl = "momentum" THEN "select" ELSE "dropna"

GenIdle ==
    /\ g_lst = <<>> /\ g_n = 1 /\ g_i = 0 /\ g_out = <<>> /\ g_state = "idle"

Init ==
    /\ pipeline \in Pipelines
    /\ pc = "groups"
    /\ err = "none"
    /\ stocks \in { SubSeq(AllSymbols, 1, n) : n \in 0..MaxSymbols }
    /\ symbol_groups = <<>>
    /\ symbol_strings = <<>>
    /\ batch_no = 0
    /\ status_code = 0
    /\ data = <<>>
    /\ df = <<>>
    /\ portfolio_size = NA
    /\ position_size = NA
    /\ universe = <<>>
    /\ requests = <<>>
    /\ responses = <<>>
    /\ allocations = 0
    /\ GenIdle

\* symbol_groups, symbol_strings and the empty table
BuildSymbolGroups ==
    /\ pc = "groups"
    /\ symbol_groups' = chunks_generator(stocks, BatchSize)
    /\ symbol_strings' =
          [i \in 1..Len(symbol_groups') |-> Join(symbol_groups'[i])]
    /\ df' = <<>>
    /\ pc' = IF Len(LoopStrings(pipeline, symbol_strings')) = 0
             THEN AfterFetch(pipeline) ELSE "fetch"
    /\ universe' = <<>>
    /\ UNCHANGED <<pipeline, err, stocks, batch_no, status_code, data,
                   portfolio_size, position_size, requests, responses,
                   allocations>>
    /\ UNCHANGED genVars

\* one iteration of "for symbol_string in symbol_strings": the request, the
\* assert on the status code, and the inner loop over the symbols
FetchBatch ==
    /\ pc = "fetch"
    /\ batch_no < Len(LoopStrings(pipeline, symbol_strings))
    /\ LET symbol_string == LoopStrings(pipeline, symbol_strings)[batch_no + 1]
           syms == Split(symbol_string)
       IN  /\ batch_no' = batch_no + 1
           /\ requests' = Append(requests, symbol_string)
           /\ \E status \in StatusCodes :
                /\ status_code' = status
                /\ IF status # 200
                   THEN /\ data' = <<>>
                        /\ responses' = responses
                        /\ err' = "AssertionError"
                        /\ pc' = "error"
                        /\ df' = df
                        /\ universe' = universe
                   ELSE \E d \in Responses(pipeline, syms) :
                        LET r == AppendLoop(pipeline, df, syms, d)
                        IN  /\ data' = d
                            /\ responses' = Append(responses, d)
                            /\ df' = r.df
                            /\ err' = r.err
                            /\ pc' = IF r.err # "none" THEN "error"
                                     ELSE IF batch_no' = Len(LoopStrings(pipeline, symbol_strings))
                                     THEN AfterFetch(pipeline)
                                     ELSE "fetch"
                            /\ universe' = IF pc' \in {"allocate", "select"}
                                           THEN r.df ELSE universe
    /\ UNCHANGED <<pipeline, stocks, symbol_groups, symbol_strings,
                   portfolio_size, position_size, allocations>>
    /\ UNCHANGED genVars

(***************************************************************************)
(* hqm: dropna, percentiles, score.                                        *)
(***************************************************************************)
\* hqm_df.dropna(subset=["one_year_return"]): the rows keep their labels
DropNaRows(t) == SelectSeq(t, LAMBDA row : ~IsNA(row.one_year_return))

DropNa ==
    /\ pc = "dropna"
    /\ df' = DropNaRows(df)
    /\ universe' = df'
    /\ pc' = "percentile"
    /\ UNCHANGED <<pipeline, err, stocks, symbol_groups, symbol_strings,
                   batch_no, status_code, data, portfolio_size, position_size,
                   requests, responses, allocations>>
    /\ UNCHANGED genVars

time_periods == <<"one_year", "six_month", "three_month", "one_month">>

\* f"{time_period}_return"
ReturnCol(tp) ==
    CASE tp = "one_year" -> "one_year_return"
      [] tp = "six_month" -> "six_month_return"
      [] tp = "three_month" -> "three_month_return"
      [] tp = "one_month" -> "one_month_return"

\* f"{time_period}_return_percentile"
PercentileCol(tp) ==
    CASE tp = "one_year" -> "one_year_return_percentile"
      [] tp = "six_month" -> "six_month_return_percentile"
      [] tp = "three_month" -> "three_month_return_percentile"
      [] tp = "one_month" -> "one_month_return_percentile"

\* hqm_df[col]
Column(t, col) == [k \in 1..Len(t) |-> t[k][col]]

HasNA(a) == \E k \in 1..Len(a) : IsNA(a[k])

\* the position of the row labelled label
Pos(t, label) == CHOOSE k \in 1..Len(t) : t[k].index = label

HasLabel(t, label) == \E k \in 1..Len(t) : t[k].index = label

\* t.loc[label, col] of an existing label
LocGet(t, label, col) == t[Pos(t, label)][col]

\* t.loc[label, col] = v: sets the cell of every row labelled label
LocSet(t, label, col, v) ==
    [k \in 1..Len(t) |->
        IF t[k].index = label THEN [t[k] EXCEPT ![col] = v] ELSE t[k]]

\* percentileofscore with kind="weak": the share of values <= score
percentileofscore_weak(a, score) ==
    IF Len(a) = 0 THEN Num(100)
    ELSE Frac(Cardinality({k \in 1..Len(a) : FracLE(a[k], score)}) * 100, Len(a))

\* percentileofscore with kind="strict": the share of values < score
percentileofscore_strict(a, score) ==
    IF Len(a) = 0 THEN Num(100)
    ELSE Frac(Cardinality({k \in 1..Len(a) : FracLT(a[k], score)}) * 100, Len(a))

\* scipy.stats.percentileofscore(a, score), kind="rank" (the default), on a
\* column without missing values: a percentage
percentileofscore(a, score) ==
    LET n == Len(a)
        left == Cardinality({k \in 1..n : FracLT(a[k], score)})
        right == Cardinality({k \in 1..n : FracLE(a[k], score)})
    IN  IF n = 0 THEN Num(100)
        ELSE Frac((right + left + (IF right > left THEN 1 ELSE 0)) * 50, n)

\* the percentile loop from the k-th row and the j-th time period on: the
\* table after it and the exception that cut it short.  Comparing None with
\* a float (a < score on the object column) and np.isnan(None) raise TypeError.
RECURSIVE PercentileLoop(_, _, _)
PercentileLoop(t, k, j) ==
    IF k > Len(t) THEN [df |-> t, err |-> "none"]
    ELSE IF j > Len(time_periods) THEN PercentileLoop(t, k + 1, 1)
    ELSE LET row == t[k].index
             return_col == ReturnCol(time_periods[j])
             percentile_col == PercentileCol(time_periods[j])
             a == Column(t, return_col)
             score == LocGet(t, row, return_col)
         IN  IF IsNA(score) \/ HasNA(a) THEN [df |-> t, err |-> "TypeError"]
             ELSE PercentileLoop(
                    LocSet(t, row, percentile_col,
                           FracDiv(percentileofscore(a, score), Num(100))),
                    k, j + 1)

Percentiles ==
    /\ pc = "percentile"
    /\ LET r == PercentileLoop(df, 1, 1)
       IN  /\ df' = r.df
           /\ err' = r.err
           /\ pc' = IF r.err # "none" THEN "error" ELSE "score"
    /\ UNCHANGED <<pipeline, stocks, symbol_groups, symbol_strings, batch_no,
                   status_code, data, portfolio_size, position_size, universe,
                   requests, responses, allocations>>
    /\ UNCHANGED genVars

\* statistics.mean of a non-empty list of numbers
RECURSIVE FracSum(_)
FracSum(xs) == IF Len(xs) = 0 THEN Num(0) ELSE FracAdd(xs[1], FracSum(Tail(xs)))

mean(xs) == FracDiv(FracSum(xs), Num(Len(xs)))

\* the list "momentum_percentiles" of the score loop for the row labelled row
momentum_percentiles(t, row) ==
    [j \in 1..Len(time_periods) |-> LocGet(t, row, ReturnCol(time_periods[j]))]

\* the score loop from the k-th row on (statistics.mean raises TypeError on None)
RECURSIVE ScoreLoop(_, _)
ScoreLoop(t, k) ==
    IF k > Len(t) THEN [df |-> t, err |-> "none"]
    ELSE LET row == t[k].index
             xs == momentum_percentiles(t, row)
         IN  IF HasNA(xs) THEN [df |-> t, err |-> "TypeError"]
             ELSE ScoreLoop(LocSet(t, row, "momentum_score", mean(xs)), k + 1)

Score ==
    /\ pc = "score"
    /\ LET r == ScoreLoop(df, 1)
       IN  /\ df' = r.df
           /\ err' = r.err
           /\ pc' = IF r.err # "none" THEN "error" ELSE "select"
    /\ UNCHANGED <<pipeline, stocks, symbol_groups, symbol_strings, batch_no,
                   status_code, data, portfolio_size, position_size, universe,
                   requests, responses, allocations>>
    /\ UNCHANGED genVars

(***************************************************************************)
(* momentum and hqm: selection of the top rows.                            *)
(***************************************************************************)
\* the column the selection sorts by
SortCol(pl) == IF pl = "momentum" THEN "one_year_return" ELSE "momentum_score"

\* the orders of sort_values(col, ascending=True)
SortOrders_ascending(keys) ==
    LET n == Len(keys)
        m == Cardinality({k \in 1..n : ~IsNA(keys[k])})
    IN  { p \in Permutations(1..n) :
            /\ \A i \in 1..m : ~IsNA(keys[p[i]])
            /\ \A i \in 1..n, j \in 1..n :
                 (i < j /\ j <= m) => FracLE(keys[p[i]], keys[p[j]])
            /\ \A i \in 1..n, j \in 1..n :
                 (m < i /\ i < j) => p[i] < p[j] }

\* sort_values(col, ascending=False): the orders p (p[i] is the position, in
\* t, of the i-th row of the result) the sort can produce.  The rows with a
\* value come first, by value from high to low; kind is the default
\* "quicksort", which is not stable, so rows with equal values come in any
\* order.  The rows without a value come last (na_position="last"), in
\* their order in t.
SortOrders(keys) ==
    LET n == Len(keys)
        m == Cardinality({k \in 1..n : ~IsNA(keys[k])})
    IN  { p \in Permutations(1..n) :
            /\ \A i \in 1..m : ~IsNA(keys[p[i]])
            /\ \A i \in 1..n, j \in 1..n :
                 (i < j /\ j <= m) => FracLE(keys[p[j]], keys[p[i]])
            /\ \A i \in 1..n, j \in 1..n :
                 (m < i /\ i < j) => p[i] < p[j] }

\* the selection without reset_index: the rows keep the labels they had
SelectTop_noreset(t, p) == PySlice([i \in 1..Len(t) |-> t[p[i]]], 0, TopN)

\* sort_values(...)[:50].reset_index(drop=True) with the rows in order p
SelectTop(t, p) ==
    ResetIndex(PySlice([i \in 1..Len(t) |-> t[p[i]]], 0, TopN))

Select ==
    /\ pc = "select"
    /\ \E p \in SortOrders(Column(df, SortCol(pipeline))) :
         df' = SelectTop(df, p)
    /\ pc' = "allocate"
    /\ UNCHANGED <<pipeline, err, stocks, symbol_groups, symbol_strings,
                   batch_no, status_code, data, portfolio_size, position_size,
                   universe, requests, responses, allocations>>
    /\ UNCHANGED genVars

(***************************************************************************)
(* Allocation.                                                             *)
(***************************************************************************)
\* the budgets a run is given; the cells as written hold the literal 1_000_000
PortfolioSizes == {Num(0 - 100), Num(0), Num(100), Num(1000000)}

\* the budget less the cost of the shares the table already holds, divided
\* by the number of rows
PositionSize_remaining(budget, t) ==
    LET cost == FracSum([k \in 1..Len(t) |->
                   IF IsNA(t[k].num_of_shares_to_buy) THEN Num(0)
                   ELSE FracMul(t[k].num_of_shares_to_buy, t[k].stock_price)])
    IN  FracDiv(FracAdd(budget, FracMul(Num(0 - 1), cost)), Num(Len(t)))

\* the budget divided by the number of rows of the Universe instead
PositionSize_universe(budget, t) == FracDiv(budget, Num(Len(universe)))

\* portfolio_size / len(df.index), the table not empty
PositionSize(budget, t) == FracDiv(budget, Num(Len(t)))

\* the quotient rounded half up instead of math.floor
SharesToBuy_round(ps, price) ==
    Num(MathFloor(FracAdd(FracDiv(ps, price), <<1, 2>>)))

\* math.ceil instead of math.floor
SharesToBuy_ceil(ps, price) ==
    LET x == FracDiv(ps, price) IN Num(0 - ((0 - x[1]) \div x[2]))

\* math.floor(position_size / stock_price), the price a number other than 0
SharesToBuy(ps, price) == Num(MathFloor(FracDiv(ps, price)))

\* the labels the allocation loop visits: range(len(df.index)), range(len(df))
\* or hqm_df.index
LoopLabels(pl, t) ==
    IF pl = "hqm" THEN [k \in 1..Len(t) |-> t[k].index]
    ELSE [k \in 1..Len(t) |-> k - 1]

\* the allocation loop over the labels: the table after it and the exception
\* that cut it short (a label that is no row label: KeyError; a missing
\* price: TypeError; a price of 0: ZeroDivisionError)
RECURSIVE AllocLoop(_, _, _)
AllocLoop(t, labels, ps) ==
    IF Len(labels) = 0 THEN [df |-> t, err |-> "none"]
    ELSE IF ~HasLabel(t, labels[1]) THEN [df |-> t, err |-> "KeyError"]
    ELSE LET price == LocGet(t, labels[1], "stock_price")
         IN  IF IsNA(price) THEN [df |-> t, err |-> "TypeError"]
             ELSE IF price[1] = 0 THEN [df |-> t, err |-> "ZeroDivisionError"]
             ELSE AllocLoop(
                    LocSet(t, labels[1], "num_of_shares_to_buy",
                           SharesToBuy(ps, price)),
                    Tail(labels), ps)

\* the allocation cell: the budget, the position size and the loop
AllocateCell ==
    /\ \E budget \in PortfolioSizes :
         /\ portfolio_size' = budget
         /\ IF Len(df) = 0
            THEN /\ position_size' = position_size
                 /\ df' = df
                 /\ err' = "ZeroDivisionError"
                 /\ pc' = "error"
            ELSE LET ps == PositionSize(budget, df)
                     r == AllocLoop(df, LoopLabels(pipeline, df), ps)
                 IN  /\ position_size' = ps
                     /\ df' = r.df
                     /\ err' = r.err
                     /\ pc' = IF r.err # "none" THEN "error" ELSE "done"
    /\ allocations' = allocations + 1
    /\ UNCHANGED <<pipeline, stocks, symbol_groups, symbol_strings, batch_no,
                   status_code, data, universe, requests, responses>>
    /\ UNCHANGED genVars

\* the allocation cell run in its turn
Allocate ==
    /\ pc = "allocate"
    /\ AllocateCell

\* the allocation cell run a second time, on the table the first run filled in
AllocateAgain ==
    /\ pc = "done"
    /\ allocations = 1
    /\ AllocateCell

Next ==
    \/ BuildSymbolGroups
    \/ FetchBatch
    \/ DropNa
    \/ Percentiles
    \/ Score
    \/ Select
    \/ Allocate
    \/ AllocateAgain

Spec == Init /\ [][Next]_vars

(***************************************************************************)
(* What a run hands over besides the table: the cells write the table to   *)
(* the workbook and nothing else, and dropna returns the kept rows only,   *)
(* so no dropped symbol is recorded anywhere.                              *)
(***************************************************************************)
dropped_symbols == {}

(***************************************************************************)
(* Helpers of the properties.                                              *)
(***************************************************************************)
\* number of rows of t whose value in col is below (at or below) v
CountLT(t, col, v) == Cardinality({k \in 1..Len(t) : FracLT(t[k][col], v)})

CountLE(t, col, v) == Cardinality({k \in 1..Len(t) : FracLE(t[k][col], v)})

Written(t, col) == { k \in 1..Len(t) : ~IsNA(t[k][col]) }

\* position of symbol s in the ticker list
StockPos(s) == CHOOSE k \in 1..Len(stocks) : stocks[k] = s

(***************************************************************************)
(* C2 as stated: every percentile written for a row equals (number of rows *)
(* of the Universe whose value in the column is <= the row's value) / n,   *)
(* also when rows tie.                                                     *)
(***************************************************************************)
C2_PercentileIsShareAtOrBelow ==
    (pipeline = "hqm") =>
       \A j \in 1..Len(time_periods) :
          \A k \in Written(df, PercentileCol(time_periods[j])) :
             FracEq(df[k][PercentileCol(time_periods[j])],
                    <<CountLE(universe, ReturnCol(time_periods[j]),
                              df[k][ReturnCol(time_periods[j])]),
                      Len(universe)>>)

(***************************************************************************)
(* C2 amended: every percentile written for a row equals                   *)
(* (rows below the value + rows at or below the value + 1) / (2n), the     *)
(* mean rank of the rows holding the value divided by n; it is (rows at or *)
(* below the value) / n exactly when no other row holds the same value.    *)
(***************************************************************************)
C2_PercentileIsMeanRank ==
    (pipeline = "hqm") =>
       \A j \in 1..Len(time_periods) :
          \A k \in Written(df, PercentileCol(time_periods[j])) :
             LET col == ReturnCol(time_periods[j])
                 v == df[k][col]
                 below == CountLT(universe, col, v)
                 atOrBelow == CountLE(universe, col, v)
                 p == df[k][PercentileCol(time_periods[j])]
             IN  /\ FracEq(p, <<below + atOrBelow + 1, 2 * Len(universe)>>)
                 /\ FracEq(p, <<atOrBelow, Len(universe)>>)
                       <=> (atOrBelow = below + 1)

\* the returns 1, 2, 3, 3 in the one-year column: the tied rows get 7/8, the
\* lowest row 1/4
C2_Witness ==
    /\ pipeline = "hqm"
    /\ pc = "score"
    /\ Len(df) = 4
    /\ Column(df, "one_year_return") = <<Num(1), Num(2), Num(3), Num(3)>>
    /\ FracEq(df[1].one_year_return_percentile, <<1, 4>>)
    /\ FracEq(df[3].one_year_return_percentile, <<7, 8>>)
    /\ FracEq(df[4].one_year_return_percentile, <<7, 8>>)

(***************************************************************************)
(* C3: for every row the momentum_score is the arithmetic mean of the      *)
(* row's four percentile ranks.                                            *)
(***************************************************************************)
C3_ScoreIsMeanOfPercentiles ==
    (pipeline = "hqm") =>
       \A k \in Written(df, "momentum_score") :
          FracEq(FracMul(Num(4), df[k].momentum_score),
                 FracAdd(FracAdd(df[k].one_year_return_percentile,
                                 df[k].six_month_return_percentile),
                         FracAdd(df[k].three_month_return_percentile,
                                 df[k].one_month_return_percentile)))

(***************************************************************************)
(* C4: after allocation, with a positive budget, every row with a positive *)
(* price holds a share count that is a non-negative integer, is            *)
(* floor(position_size / stock_price), and costs no more than the          *)
(* position size.                                                          *)
(***************************************************************************)
C4_SharesAreFloor ==
    (pc = "done" /\ portfolio_size[1] > 0) =>
       \A k \in 1..Len(df) :
          (df[k].stock_price[1] > 0) =>
             LET shares == df[k].num_of_shares_to_buy
             IN  /\ ~IsNA(shares)
                 /\ shares[2] = 1
                 /\ shares[1] >= 0
                 /\ FracLE(FracMul(shares, df[k].stock_price), position_size)
                 /\ FracLT(position_size,
                           FracMul(Num(shares[1] + 1), df[k].stock_price))

\* a selected table where the floor rounds down: 2 shares at 20 out of 50
C4_Witness ==
    /\ pc = "done"
    /\ pipeline = "hqm"
    /\ portfolio_size = Num(100)
    /\ \E k \in 1..Len(df) :
         /\ df[k].stock_price = Num(20)
         /\ df[k].num_of_shares_to_buy = Num(2)
         /\ FracLT(FracMul(df[k].num_of_shares_to_buy, df[k].stock_price),
                   position_size)

(***************************************************************************)
(* C5: the position size is the budget divided by the number of rows of    *)
(* the final table (after dropped rows and after selection); a budget of   *)
(* 100 over a row priced 10 and a row priced 20 gives position size 50 and *)
(* 5 and 2 shares.                                                         *)
(***************************************************************************)
C5_PositionSizeOverFinalRows ==
    (pc = "done") =>
       /\ FracEq(FracMul(position_size, Num(Len(df))), portfolio_size)
       /\ (/\ portfolio_size = Num(100)
           /\ Column(df, "stock_price") = <<Num(10), Num(20)>>)
          => /\ position_size = Num(50)
             /\ Column(df, "num_of_shares_to_buy") = <<Num(5), Num(2)>>

\* four symbols, one dropped for its missing return, the top rows selected
C5_Witness ==
    /\ pc = "done"
    /\ pipeline = "hqm"
    /\ Len(stocks) > Len(universe)
    /\ Len(universe) > Len(df)
    /\ portfolio_size = Num(100)
    /\ FracEq(position_size, <<100, Len(df)>>)

(***************************************************************************)
(* C6 as stated: the selection yields the first min(N, rows) rows of the   *)
(* table sorted by score from high to low, rows with equal scores in their *)
(* original order.                                                         *)
(***************************************************************************)
\* the order a stable sort produces
StableOrder(keys) ==
    CHOOSE p \in SortOrders(keys) :
       \A i \in 1..Len(keys), j \in 1..Len(keys) :
          (i < j /\ keys[p[i]] = keys[p[j]]) => p[i] < p[j]

C6_SelectionIsStable ==
    [][(pc = "select" /\ pc' = "allocate") =>
          df' = SelectTop(df, StableOrder(Column(df, SortCol(pipeline))))]_vars

(***************************************************************************)
(* C6 amended: the selection yields min(N, rows) rows of the table,        *)
(* relabelled 0, 1, ..., ordered by score from high to low with the rows   *)
(* that have no score last, and no row left out has a higher score than a  *)
(* row kept; the order among rows with equal scores is not fixed.          *)
(***************************************************************************)
\* x may come after y in a descending order with missing values last
MayFollow(x, y) == IsNA(x) \/ (~IsNA(y) /\ FracLE(x, y))

C6_SelectionIsSorted ==
    [][(pc = "select" /\ pc' = "allocate") =>
          LET col == SortCol(pipeline)
          IN  /\ Len(df') = Min(TopN, Len(df))
              /\ \A i \in 1..Len(df') :
                   \E k \in 1..Len(df) : df'[i] = [df[k] EXCEPT !.index = i - 1]
              /\ Cardinality(Tickers(df')) = Len(df')
              /\ \A i \in 1..Len(df'), j \in 1..Len(df') :
                   (i < j) => MayFollow(df'[j][col], df'[i][col])
              /\ \A k \in 1..Len(df) :
                   (df[k].ticker \notin Tickers(df')) =>
                      \A i \in 1..Len(df') : MayFollow(df[k][col], df'[i][col])]_vars

\* two selected rows with equal scores, the later symbol first, a row left out
C6_Witness ==
    /\ pc = "allocate"
    /\ pipeline = "hqm"
    /\ Len(universe) > Len(df)
    /\ Len(df) >= 2
    /\ df[1].momentum_score = df[2].momentum_score
    /\ StockPos(df[1].ticker) > StockPos(df[2].ticker)

(***************************************************************************)
(* C7: whenever a percentile has been computed, no row of the population   *)
(* it was computed over lacks one of the four returns.                     *)
(***************************************************************************)
C7_NoIncompleteRowRanked ==
    (/\ pipeline = "hqm"
     /\ \E j \in 1..Len(time_periods) :
          Written(df, PercentileCol(time_periods[j])) # {})
    => \A k \in 1..Len(universe) :
          \A j \in 1..Len(time_periods) :
             ~IsNA(universe[k][ReturnCol(time_periods[j])])

(***************************************************************************)
(* C8: when a response lacks the entry of one of the batch's symbols, the  *)
(* run is not ended by it and the other symbols of the batch are in the    *)
(* table.                                                                  *)
(***************************************************************************)
\* the symbols of the batch fetched last
LastBatch == Split(LoopStrings(pipeline, symbol_strings)[batch_no])

C8_MissingEntryIsDropped ==
    (/\ batch_no > 0
     /\ status_code = 200
     /\ pc \in {"fetch", "error", AfterFetch(pipeline)}
     /\ \E s \in SeqToSet(LastBatch) : s \notin DOMAIN data)
    => /\ pc # "error"
       /\ \A s \in SeqToSet(LastBatch) : (s \in DOMAIN data) => s \in Tickers(df)

(***************************************************************************)
(* C9: at the end of a successful run every input symbol is a row of the   *)
(* Universe or a member of the dropped-symbol set reported with the plan.  *)
(* Stated for the hqm run, the one that removes rows with dropna, given a  *)
(* positive budget.                                                        *)
(***************************************************************************)
C9_EverySymbolAccountedFor ==
    (pc = "done" /\ pipeline = "hqm" /\ portfolio_size[1] > 0) =>
       \A s \in SeqToSet(stocks) : s \in Tickers(universe) \cup dropped_symbols

(***************************************************************************)
(* C10: while the table is built, and after a fetch or its processing has  *)
(* failed, the table holds all rows of a batch or none of them.            *)
(***************************************************************************)
C10_BatchAllOrNone ==
    (pc = "fetch" \/ (pc = "error" /\ err \in {"AssertionError", "KeyError"}))
    => \A i \in 1..Len(symbol_groups) :
          \/ Tickers(df) \cap SeqToSet(symbol_groups[i]) = {}
          \/ SeqToSet(symbol_groups[i]) \subseteq Tickers(df)

(***************************************************************************)
(* C11: in a run that a fatal error has ended, no share count has been     *)
(* written.                                                                *)
(***************************************************************************)
C11_NoSharesAfterFatalError ==
    (pc = "error") => Written(df, "num_of_shares_to_buy") = {}

(***************************************************************************)
(* C12: a run given a budget that is zero or negative (and a ticker list   *)
(* that is not empty) fails with a validation error, and no batch has been *)
(* requested by then.                                                      *)
(***************************************************************************)
C12_NonPositiveBudgetRejected ==
    (/\ stocks # <<>>
     /\ ~IsNA(portfolio_size)
     /\ portfolio_size[1] <= 0)
    => /\ pc = "error"
       /\ err = "ValidationError"
       /\ requests = <<>>

(***************************************************************************)
(* C14: the allocator rejects a row whose price is zero or negative: it    *)
(* does not divide by that price (no ZeroDivisionError comes of it) and    *)
(* writes no negative share count for the row.  Stated for budgets above   *)
(* 0.                                                                      *)
(***************************************************************************)
C14_NonPositivePriceRejected ==
    (~IsNA(portfolio_size) /\ portfolio_size[1] > 0 /\ Len(df) > 0) =>
       /\ err # "ZeroDivisionError"
       /\ \A k \in 1..Len(df) :
            (df[k].stock_price[1] <= 0) =>
               \/ IsNA(df[k].num_of_shares_to_buy)
               \/ df[k].num_of_shares_to_buy[1] >= 0

(***************************************************************************)
(* C15: when the allocation cell is run on an empty table, the run fails   *)
(* with a validation error, raised before the division by the row count.   *)
(***************************************************************************)
C15_EmptyTableRejected ==
    (allocations > 0 /\ Len(df) = 0) =>
       /\ pc = "error"
       /\ err = "ValidationError"

(***************************************************************************)
(* C16 as stated: every percentile written is between 0 and 1; a row       *)
(* holding the highest value of the column has percentile exactly 1, also  *)
(* when other rows hold it too; a row holding the lowest value has a       *)
(* percentile of at least 1/n; with a single row the percentile is 1.      *)
(***************************************************************************)
\* v is the highest (lowest) value of column col of t
IsMax(t, col, v) == \A k \in 1..Len(t) : FracLE(t[k][col], v)

IsMin(t, col, v) == \A k \in 1..Len(t) : FracLE(v, t[k][col])

\* number of rows of t holding v in column col
CountEQ(t, col, v) == Cardinality({k \in 1..Len(t) : FracEq(t[k][col], v)})

C16_MaxHasPercentileOne ==
    (pipeline = "hqm") =>
       \A j \in 1..Len(time_periods) :
          \A k \in Written(df, PercentileCol(time_periods[j])) :
             LET col == ReturnCol(time_periods[j])
                 v == df[k][col]
                 p == df[k][PercentileCol(time_periods[j])]
                 n == Len(universe)
             IN  /\ FracLE(Num(0), p) /\ FracLE(p, Num(1))
                 /\ IsMax(universe, col, v) => FracEq(p, Num(1))
                 /\ IsMin(universe, col, v) => FracLE(<<1, n>>, p)
                 /\ (n = 1) => FracEq(p, Num(1))

(***************************************************************************)
(* C16 amended: every percentile written is above 0 and at most 1; a row   *)
(* holding the highest value of the column, together with m - 1 other      *)
(* rows, has percentile 1 - (m - 1)/(2n), which is 1 exactly when no other *)
(* row holds it; a row holding the lowest value has a percentile of at     *)
(* least 1/n; with a single row the percentile is 1.                       *)
(***************************************************************************)
C16_PercentileBounds ==
    (pipeline = "hqm") =>
       \A j \in 1..Len(time_periods) :
          \A k \in Written(df, PercentileCol(time_periods[j])) :
             LET col == ReturnCol(time_periods[j])
                 v == df[k][col]
                 p == df[k][PercentileCol(time_periods[j])]
                 n == Len(universe)
                 m == CountEQ(universe, col, v)
             IN  /\ FracLT(Num(0), p) /\ FracLE(p, Num(1))
                 /\ IsMax(universe, col, v) =>
                       /\ FracEq(p, <<2 * n - m + 1, 2 * n>>)
                       /\ FracEq(p, Num(1)) <=> (m = 1)
                 /\ IsMin(universe, col, v) => FracLE(<<1, n>>, p)
                 /\ (n = 1) => FracEq(p, Num(1))

\* three rows: the highest one-year return shared by two of them (5/6 each),
\* the third row lowest there (1/3) and alone highest over three months (1)
C16_Witness ==
    /\ pipeline = "hqm"
    /\ pc = "score"
    /\ Len(df) = 3
    /\ Column(df, "one_year_return") = <<Num(3), Num(2), Num(3)>>
    /\ Column(df, "three_month_return") = <<Num(2), Num(3), Num(2)>>
    /\ FracEq(df[1].one_year_return_percentile, <<5, 6>>)
    /\ FracEq(df[3].one_year_return_percentile, <<5, 6>>)
    /\ FracEq(df[2].one_year_return_percentile, <<1, 3>>)
    /\ FracEq(df[2].three_month_return_percentile, Num(1))

(***************************************************************************)
(* C17: the allocation cell run a second time on the table the first run   *)
(* filled in, with the same budget, ends as the first run did and leaves   *)
(* every row, its share count included, as the first run left it.          *)
(***************************************************************************)
C17_AllocationIdempotent ==
    [][(/\ pc = "done"
        /\ allocations' = allocations + 1
        /\ portfolio_size' = portfolio_size)
       => /\ pc' = "done"
          /\ df' = df
          /\ position_size' = position_size]_vars

\* the equal-weight table of scenario A after the second run
C17_Witness ==
    /\ pipeline = "equal_weight"
    /\ pc = "done"
    /\ allocations = 2
    /\ portfolio_size = Num(100)
    /\ Column(df, "stock_price") = <<Num(10), Num(20)>>
    /\ Column(df, "num_of_shares_to_buy") = <<Num(5), Num(2)>>

(***************************************************************************)
(* C18: the fetch loop requests the symbol strings of the batches in batch *)
(* order, each once and none longer than the batch size; once the loop has *)
(* ended without an error, every batch, and so every ticker, has been      *)
(* requested.                                                              *)
(***************************************************************************)
\* the run is past the fetch loop, which no error cut short
FetchLoopEnded ==
    pc \in {"dropna", "percentile", "score", "select", "allocate", "done"}
    \/ (pc = "error" /\ err \notin {"AssertionError", "KeyError"})

C18_EveryBatchFetchedOnce ==
    /\ Len(requests) <= Len(symbol_strings)
    /\ requests = SubSeq(symbol_strings, 1, Len(requests))
    /\ \A i \in 1..Len(requests) : Len(Split(requests[i])) <= BatchSize
    /\ FetchLoopEnded =>
          /\ Len(requests) = Len(symbol_groups)
          /\ \A s \in SeqToSet(stocks) :
                \E i \in 1..Len(requests) : s \in SeqToSet(Split(requests[i]))

(***************************************************************************)
(* C19: when table construction has ended, the set of rows of the Universe *)
(* (symbol with its record, row labels aside) is the set that merging the  *)
(* same batch responses in any other order of the batches gives, and each  *)
(* row is the record its symbol has in the response of its batch.          *)
(***************************************************************************)
\* the rows of t without their labels
RowSet(t) == { [t[k] EXCEPT !.index = 0] : k \in 1..Len(t) }

\* the table after the batches p[i], p[i + 1], ... have been merged into t by
\* the inner loop of the fetch loop
RECURSIVE MergeFrom(_, _, _, _)
MergeFrom(t, strs, p, i) ==
    IF i > Len(strs) THEN t
    ELSE MergeFrom(AppendLoop(pipeline, t, Split(strs[p[i]]), responses[p[i]]).df,
                   strs, p, i + 1)

\* what table construction makes of the merged table
Constructed(t) == IF pipeline = "hqm" THEN DropNaRows(t) ELSE t

ConstructionEnded == FetchLoopEnded /\ pc # "dropna"

C19_RowSetIndependentOfOrder ==
    ConstructionEnded =>
       /\ Len(responses) = Len(requests)
       /\ \A p \in Permutations(1..Len(requests)) :
             RowSet(Constructed(MergeFrom(<<>>, requests, p, 1)))
                = RowSet(universe)
       /\ \A k \in 1..Len(universe) :
             \E i \in 1..Len(responses) :
                /\ universe[k].ticker \in DOMAIN responses[i]
                /\ universe[k] =
                      [NewRow(pipeline, universe[k].ticker,
                              responses[i][universe[k].ticker])
                         EXCEPT !.index = universe[k].index]

\* two batches merged, a row of the first one dropped for its missing return
C19_Witness ==
    /\ pipeline = "hqm"
    /\ pc = "percentile"
    /\ Len(responses) = 2
    /\ Tickers(universe) = {"A", "C", "D"}

(***************************************************************************)
(* C20: after table construction has ended, as long as the table variable  *)
(* still names the table that construction built (the selection is the     *)
(* first cell to bind the variable to a new table), that table has the     *)
(* rows, the row order and the cell values it was built with.              *)
(***************************************************************************)
\* df (hqm_df) is the very table construction built
TableIsUniverse ==
    /\ ConstructionEnded
    /\ \/ pipeline = "equal_weight"
       \/ pc \in {"percentile", "score", "select"}
       \/ (pipeline = "hqm" /\ pc = "error" /\ allocations = 0)

C20_UniverseNotMutated ==
    TableIsUniverse => df = universe

(***************************************************************************)
(* C23: the labels the allocation loop visits are the row labels of the    *)
(* table, each once and each naming one row; the loop adds no row, removes *)
(* none and changes no cell but share counts; when it has run to its end   *)
(* every row holds a share count.                                          *)
(***************************************************************************)
LabelsCoincide(pl, t) ==
    LET labels == LoopLabels(pl, t)
    IN  /\ Len(labels) = Len(t)
        /\ \A k \in 1..Len(t) : labels[k] = t[k].index
        /\ \A k \in 1..Len(t) :
              Cardinality({i \in 1..Len(t) : t[i].index = labels[k]}) = 1

C23_EveryRowWrittenOnce ==
    [][(allocations' = allocations + 1) =>
          /\ LabelsCoincide(pipeline, df)
          /\ Len(df') = Len(df)
          /\ \A k \in 1..Len(df) :
                df'[k] = [df[k] EXCEPT !.num_of_shares_to_buy =
                                          df'[k].num_of_shares_to_buy]
          /\ (pc' = "done") =>
                \A k \in 1..Len(df') : ~IsNA(df'[k].num_of_shares_to_buy)]_vars

\* the one-year momentum table after selection has reordered and cut it
C23_Witness ==
    /\ pipeline = "momentum"
    /\ pc = "done"
    /\ allocations = 1
    /\ Len(universe) = 3
    /\ Len(df) = 2
    /\ df[1].ticker # universe[1].ticker
    /\ \A k \in 1..Len(df) : ~IsNA(df[k].num_of_shares_to_buy)

(***************************************************************************)
(* C24: after allocation with a positive budget over a table whose prices  *)
(* are all positive, the sum over the rows of                              *)
(* num_of_shares_to_buy x stock_price is at most the budget.               *)
(***************************************************************************)
TotalCost(t) ==
    FracSum([k \in 1..Len(t) |->
               FracMul(t[k].num_of_shares_to_buy, t[k].stock_price)])

C24_TotalCostWithinBudget ==
    (/\ pc = "done"
     /\ portfolio_size[1] > 0
     /\ \A k \in 1..Len(df) : df[k].stock_price[1] > 0)
    => FracLE(TotalCost(df), portfolio_size)

\* budget 100 over the prices 20, 20 and 10: 1, 1 and 3 shares, 70 spent
C24_Witness ==
    /\ pc = "done"
    /\ pipeline = "equal_weight"
    /\ portfolio_size = Num(100)
    /\ Column(df, "stock_price") = <<Num(20), Num(20), Num(10)>>
    /\ Column(df, "num_of_shares_to_buy") = <<Num(1), Num(1), Num(3)>>
    /\ FracEq(TotalCost(df), Num(70))

(***************************************************************************)
(* chunks_generator on its own: a call with any list and any batch size,   *)
(* the generator advanced one next() at a time.                            *)
(***************************************************************************)
GenSymbols == {"A", "B"}

RECURSIVE ListsUpTo(_)
ListsUpTo(n) ==
    IF n = 0 THEN {<<>>}
    ELSE ListsUpTo(n - 1) \cup [1..n -> GenSymbols]

RunIdle ==
    /\ pipeline = "none" /\ pc = "idle" /\ err = "none" /\ stocks = <<>>
    /\ symbol_groups = <<>> /\ symbol_strings = <<>> /\ batch_no = 0
    /\ status_code = 0 /\ data = <<>> /\ df = <<>> /\ portfolio_size = NA
    /\ position_size = NA /\ universe = <<>> /\ requests = <<>>
    /\ responses = <<>> /\ allocations = 0

InitChunks ==
    /\ RunIdle
    /\ g_lst \in ListsUpTo(MaxLen)
    /\ g_n \in (0 - 1)..MaxChunk
    /\ g_i = 0
    /\ g_out = <<>>
    /\ g_state = "created"

\* next() when range(0, len(lst), n) is built with n = 0: ValueError
GenRaise ==
    /\ g_state = "created"
    /\ g_n = 0
    /\ g_state' = "raised"
    /\ UNCHANGED <<g_lst, g_n, g_i, g_out>>
    /\ UNCHANGED runVars

\* next() with an element of the range left: one batch is yielded
GenYield ==
    /\ g_state \in {"created", "suspended"}
    /\ g_n # 0
    /\ g_i < RangeLen(0, Len(g_lst), g_n)
    /\ g_out' = Append(g_out, YieldValue(g_lst, g_i * g_n, g_n))
    /\ g_i' = g_i + 1
    /\ g_state' = "suspended"
    /\ UNCHANGED <<g_lst, g_n>>
    /\ UNCHANGED runVars

\* next() with the range used up: StopIteration
GenStop ==
    /\ g_state \in {"created", "suspended"}
    /\ g_n # 0
    /\ g_i >= RangeLen(0, Len(g_lst), g_n)
    /\ g_state' = "exhausted"
    /\ UNCHANGED <<g_lst, g_n, g_i, g_out>>
    /\ UNCHANGED runVars

NextChunks ==
    \/ GenRaise
    \/ GenYield
    \/ GenStop

SpecChunks == InitChunks /\ [][NextChunks]_vars

(***************************************************************************)
(* C1: for every list lst and every batch size n > 0, the batches          *)
(* chunks_generator yields, concatenated in order, are lst itself, and no  *)
(* batch is longer than n.                                                 *)
(***************************************************************************)
RECURSIVE Concat(_)
Concat(ss) == IF Len(ss) = 0 THEN <<>> ELSE ss[1] \o Concat(Tail(ss))

C1_BatchingComplete ==
    (g_n > 0) =>
       /\ \A k \in 1..Len(g_out) : Len(g_out[k]) <= g_n
       /\ Concat(g_out) = SubSeq(g_lst, 1, Len(Concat(g_out)))
       /\ (g_state = "exhausted") => Concat(g_out) = g_lst

C1_Witness ==
    /\ g_state = "exhausted"
    /\ g_n = 3
    /\ Len(g_lst) = 4
    /\ Len(g_out) = 2

(***************************************************************************)
(* C13: for every list, a call with a batch size that is zero or negative  *)
(* ends by raising an error once the generator is advanced; it yields no   *)
(* batch and never ends as an exhausted (possibly empty) sequence.         *)
(***************************************************************************)
C13_NonPositiveBatchSizeRejected ==
    (g_n <= 0 /\ g_state # "created") =>
       /\ g_state = "raised"
       /\ g_out = <<>>

(***************************************************************************)
(* C22: for every list L and every batch size k > 0 the generator yields   *)
(* exactly ceil(|L| / k) batches: none of them is empty, every batch but   *)
(* the last has exactly k symbols, an empty list gives no batch and        *)
(* k >= |L| >= 1 gives exactly one.                                        *)
(***************************************************************************)
\* ceil(a / b) for a >= 0, b > 0
CeilDiv(a, b) == (a + b - 1) \div b

C22_BatchCount ==
    (g_n > 0) =>
       LET count == CeilDiv(Len(g_lst), g_n)
       IN  /\ Len(g_out) <= count
           /\ \A k \in 1..Len(g_out) :
                /\ Len(g_out[k]) >= 1
                /\ (k < count) => Len(g_out[k]) = g_n
           /\ (g_state = "exhausted") =>
                /\ Len(g_out) = count
                /\ (Len(g_lst) = 0) => g_out = <<>>
                /\ (g_n >= Len(g_lst) /\ Len(g_lst) >= 1) => Len(g_out) = 1

\* three symbols in batches of two: a full batch and a last batch of one
C22_Witness ==
    /\ g_state = "exhausted"
    /\ g_n = 2
    /\ Len(g_lst) = 3
    /\ Len(g_out) = 2
    /\ Len(g_out[1]) = 2
    /\ Len(g_out[2]) = 1

(***************************************************************************)
(* The score cell on its own: the cell run on a table hqm_df that was      *)
(* built by the fetch loop and ranked by the percentile loop, except that  *)
(* one percentile cell may still hold the pd.NA the row was built with.    *)
(***************************************************************************)
\* the return profiles without a missing return
CompleteProfiles ==
    { r \in ReturnProfiles : \A j \in 1..Len(r) : ~IsNA(r[j]) }

\* hqm_df as the fetch loop builds it from one profile per symbol
RECURSIVE BuiltTable(_, _)
BuiltTable(rs, k) ==
    IF k = 0 THEN <<>>
    ELSE DfAppend(BuiltTable(rs, k - 1),
                  NewRow("hqm", AllSymbols[k], StatsEntry(Num(10), rs[k])))

\* the percentile cells of t, <<row position, time period>>
PercentileCells(t) == (1..Len(t)) \X (1..Len(time_periods))

\* t with the percentile cells in cells still missing
Unranked(t, cells) ==
    [k \in 1..Len(t) |->
        [f \in DOMAIN t[k] |->
            IF \E j \in 1..Len(time_periods) :
                  f = PercentileCol(time_periods[j]) /\ <<k, j>> \in cells
            THEN NA ELSE t[k][f]]]

ScoreInputs ==
    UNION { { Unranked(PercentileLoop(BuiltTable(rs, Len(rs)), 1, 1).df, cells) :
                cells \in {{}} \cup { {c} : c \in PercentileCells(rs) } } :
            rs \in UNION { [1..n -> CompleteProfiles] : n \in 1..MaxScoreRows } }

InitScore ==
    /\ pipeline = "hqm"
    /\ pc = "score"
    /\ err = "none"
    /\ df \in ScoreInputs
    /\ stocks = <<>> /\ symbol_groups = <<>> /\ symbol_strings = <<>>
    /\ batch_no = 0 /\ status_code = 0 /\ data = <<>>
    /\ portfolio_size = NA /\ position_size = NA /\ universe = <<>>
    /\ requests = <<>> /\ responses = <<>> /\ allocations = 0
    /\ GenIdle

NextScore == Score

SpecScore == InitScore /\ [][NextScore]_vars

(***************************************************************************)
(* C21: when the score cell has run on a table in which a percentile of    *)
(* some row is missing, the cell has failed with an error and that row has *)
(* no score.                                                               *)
(***************************************************************************)
MissesPercentile(row) ==
    \E j \in 1..Len(time_periods) : IsNA(row[PercentileCol(time_periods[j])])

=============================================================================
